---- MODULE Spec2Model ----
(***************************************************************************)
(* Model of demo/deep/nested/math.py: calculate_total and                  *)
(* calculate_average.                                                      *)
(*                                                                         *)
(* Values.  A Python int is unbounded; an element of an input list is      *)
(* modelled as h * HUGE + v, where HUGE stands for the int 10**400 (an int *)
(* beyond the range of a float) and h, v are small integers.  Sums of such *)
(* values are exact, as Python's int addition is.  A non-numeric element   *)
(* is the str element.  A result is h * HUGE + n / d with d >= 1: an int   *)
(* has d = 1, and the float that int / int (true division) yields is       *)
(* represented by the rational it is the correctly rounded image of; for   *)
(* the small numerators and denominators of this model distinct rationals  *)
(* round to distinct floats and the order is kept, so ==, < and <= on      *)
(* results agree with Python's.  True division of an int whose quotient is *)
(* beyond the float range raises OverflowError.                            *)
(*                                                                         *)
(* Control.  Each execution context runs one call; every bytecode-level    *)
(* step of the call (the emptiness test, one addition of sum(), the return *)
(* of sum(), the division, the unwinding of an exception) is one action.   *)
(***************************************************************************)
EXTENDS Integers, Sequences, FiniteSets

VARIABLES op, items, pc, i, acc, exc, outcome, result

vars == <<op, items, pc, i, acc, exc, outcome, result>>

\* Bounds of the single-call specification.
MaxLen == 3
MaxVal == 2
\* Bound of the concurrent specification.
MaxLenC == 2

----------------------------------------------------------------------------
\* Values

IntVal(k) == [t |-> "int", h |-> 0, v |-> k]
Huge(s) == [t |-> "int", h |-> s, v |-> 0]
StrVal == [t |-> "str", h |-> 0, v |-> 0]

Ints(m) == {IntVal(k) : k \in (0 - m)..m}
Elem == Ints(MaxVal) \cup {Huge(1), Huge(0 - 1), StrVal}
ElemC == {IntVal(1), IntVal(2), Huge(1), StrVal}

SeqsUpTo(S, n) == UNION {[1..k -> S] : k \in 0..n}
Inputs == SeqsUpTo(Elem, MaxLen)
InputsC == SeqsUpTo(ElemC, MaxLenC)

Zero == [h |-> 0, v |-> 0]
\* A sum that starts from 1.
SumStartOne == [h |-> 0, v |-> 1]
\* sum() starts from the int 0.
SumStart == Zero
IntResult(a) == [h |-> a.h, n |-> a.v, d |-> 1]
NoResult == [h |-> 0, n |-> 0, d |-> 0]

Abs(n) == IF n < 0 THEN 0 - n ELSE n

RECURSIVE GCD(_, _)
GCD(a, b) == IF b = 0 THEN a ELSE GCD(b, a % b)

\* Floor division (//) in the place of true division.
FloorDiv(n, d) == [h |-> 0, n |-> n \div d, d |-> 1]
\* n / d for ints n, d with d > 0: Python's true division.
TrueDiv(n, d) ==
    LET g == GCD(Abs(n), d)
    IN  [h |-> 0, n |-> n \div g, d |-> d \div g]

\* An accumulation that keeps the last element only.
AddLast(a, x) == [h |-> x.h, v |-> x.v]
\* An accumulation that subtracts the running total from the element.
AddSub(a, x) == [h |-> x.h - a.h, v |-> x.v - a.v]
\* int + element, as sum() adds: the accumulator starts as the int 0 and
\* stays an int while the elements are ints.
Add(a, x) == [h |-> a.h + x.h, v |-> a.v + x.v]

IsNumber(x) == x.t = "int"

\* Whether the quotient of the int a by a count of the model is within the
\* float range: it is not when a has a HUGE part (10**400 / 4 > 1.8e308).
InFloatRange(a) == a.h = 0

----------------------------------------------------------------------------
\* The calls, one step at a time

Ctx1 == {1}
CtxC == {1, 2}

InitOn(C) ==
    /\ op = [c \in C |-> "none"]
    /\ items = [c \in C |-> <<>>]
    /\ pc = [c \in C |-> "idle"]
    /\ i = [c \in C |-> 0]
    /\ acc = [c \in C |-> SumStart]
    /\ exc = [c \in C |-> "none"]
    /\ outcome = [c \in C |-> "none"]
    /\ result = [c \in C |-> NoResult]

Init == InitOn(Ctx1)
InitC == InitOn(CtxC)

\* An accumulator kept in one module-level variable.
SharedSlot(c) == 1
\* The frame whose accumulator a call's sum() uses: its own.
AccSlot(c) == c

Ops == {"total", "average"}

\* A caller invokes calculate_total(xs) or calculate_average(xs), xs one of
\* the sequences of I.
Call(c, I) ==
    /\ pc[c] = "idle"
    /\ \E o \in Ops, xs \in I :
        /\ op' = [op EXCEPT ![c] = o]
        /\ items' = [items EXCEPT ![c] = xs]
        /\ pc' = [pc EXCEPT ![c] = IF o = "average" THEN "check" ELSE "sum"]
        /\ acc' = IF o = "average" THEN acc
                  ELSE [acc EXCEPT ![AccSlot(c)] = SumStart]
    /\ UNCHANGED <<i, exc, outcome, result>>

\* calculate_average without its emptiness test.
AvgCheckNoGuard(c) ==
    /\ pc[c] = "check"
    /\ pc' = [pc EXCEPT ![c] = "sum"]
    /\ acc' = [acc EXCEPT ![AccSlot(c)] = SumStart]
    /\ UNCHANGED <<op, items, i, exc, result, outcome>>

\* calculate_average: if not items: return 0
AvgCheck(c) ==
    /\ pc[c] = "check"
    /\ IF Len(items[c]) = 0
       THEN /\ result' = [result EXCEPT ![c] = IntResult(Zero)]
            /\ outcome' = [outcome EXCEPT ![c] = "ok"]
            /\ pc' = [pc EXCEPT ![c] = "done"]
            /\ UNCHANGED acc
       ELSE /\ pc' = [pc EXCEPT ![c] = "sum"]
            /\ acc' = [acc EXCEPT ![AccSlot(c)] = SumStart]
            /\ UNCHANGED <<result, outcome>>
    /\ UNCHANGED <<op, items, i, exc>>

\* A summation that consumes its input (items.pop(0)) as it goes.
SumStepPop(c) ==
    /\ pc[c] = "sum"
    /\ Len(items[c]) > 0
    /\ LET x == Head(items[c])
       IN  IF IsNumber(x)
           THEN /\ acc' = [acc EXCEPT ![AccSlot(c)] = Add(acc[AccSlot(c)], x)]
                /\ items' = [items EXCEPT ![c] = Tail(items[c])]
                /\ UNCHANGED <<pc, exc, outcome>>
           ELSE /\ exc' = [exc EXCEPT ![c] = "TypeError"]
                /\ pc' = [pc EXCEPT ![c] = "done"]
                /\ outcome' = [outcome EXCEPT ![c] = "TypeError"]
                /\ UNCHANGED <<acc, items>>
    /\ UNCHANGED <<op, i, result>>

\* sum(items): one iteration.  Adding a str to an int raises TypeError.
SumStep(c) ==
    /\ pc[c] = "sum"
    /\ i[c] < Len(items[c])
    /\ LET x == items[c][i[c] + 1]
       IN  IF IsNumber(x)
           THEN /\ acc' = [acc EXCEPT ![AccSlot(c)] = Add(acc[AccSlot(c)], x)]
                /\ i' = [i EXCEPT ![c] = i[c] + 1]
                /\ UNCHANGED <<pc, exc, outcome>>
           ELSE /\ exc' = [exc EXCEPT ![c] = "TypeError"]
                /\ IF op[c] = "average"
                   THEN /\ pc' = [pc EXCEPT ![c] = "unwind"]
                        /\ UNCHANGED outcome
                   ELSE /\ pc' = [pc EXCEPT ![c] = "done"]
                        /\ outcome' = [outcome EXCEPT ![c] = "TypeError"]
                /\ UNCHANGED <<acc, i>>
    /\ UNCHANGED <<op, items, result>>

\* sum(items) is exhausted: calculate_total returns the accumulator, to the
\* caller or to calculate_average.
SumReturn(c) ==
    /\ pc[c] = "sum"
    /\ i[c] = Len(items[c])
    /\ IF op[c] = "average"
       THEN /\ pc' = [pc EXCEPT ![c] = "div"]
            /\ UNCHANGED <<result, outcome>>
       ELSE /\ pc' = [pc EXCEPT ![c] = "done"]
            /\ result' = [result EXCEPT ![c] = IntResult(acc[AccSlot(c)])]
            /\ outcome' = [outcome EXCEPT ![c] = "ok"]
    /\ UNCHANGED <<op, items, i, acc, exc>>

\* A division by len(items) - 1.
DivideOffByOne(c) ==
    /\ pc[c] = "div"
    /\ LET t == acc[AccSlot(c)]
           n == Len(items[c]) - 1
       IN  IF n = 0
           THEN /\ outcome' = [outcome EXCEPT ![c] = "ZeroDivisionError"]
                /\ UNCHANGED result
           ELSE IF ~InFloatRange(t)
           THEN /\ outcome' = [outcome EXCEPT ![c] = "OverflowError"]
                /\ UNCHANGED result
           ELSE /\ outcome' = [outcome EXCEPT ![c] = "ok"]
                /\ result' = [result EXCEPT ![c] = TrueDiv(t.v, n)]
    /\ pc' = [pc EXCEPT ![c] = "done"]
    /\ UNCHANGED <<op, items, i, acc, exc>>

\* calculate_average: return calculate_total(items) / len(items)
Divide(c) ==
    /\ pc[c] = "div"
    /\ LET t == acc[AccSlot(c)]
           n == Len(items[c])
       IN  IF n = 0
           THEN /\ outcome' = [outcome EXCEPT ![c] = "ZeroDivisionError"]
                /\ UNCHANGED result
           ELSE IF ~InFloatRange(t)
           THEN /\ outcome' = [outcome EXCEPT ![c] = "OverflowError"]
                /\ UNCHANGED result
           ELSE /\ outcome' = [outcome EXCEPT ![c] = "ok"]
                /\ result' = [result EXCEPT ![c] = TrueDiv(t.v, n)]
    /\ pc' = [pc EXCEPT ![c] = "done"]
    /\ UNCHANGED <<op, items, i, acc, exc>>

\* A calculate_average that catches the exception and returns 0.
UnwindCaught(c) ==
    /\ pc[c] = "unwind"
    /\ outcome' = [outcome EXCEPT ![c] = "ok"]
    /\ result' = [result EXCEPT ![c] = IntResult(Zero)]
    /\ pc' = [pc EXCEPT ![c] = "done"]
    /\ UNCHANGED <<op, items, i, acc, exc>>

\* An exception raised inside calculate_total leaves calculate_average: the
\* function has no handler.
Unwind(c) ==
    /\ pc[c] = "unwind"
    /\ outcome' = [outcome EXCEPT ![c] = exc[c]]
    /\ pc' = [pc EXCEPT ![c] = "done"]
    /\ UNCHANGED <<op, items, i, acc, exc, result>>

Step(c) == AvgCheck(c) \/ SumStep(c) \/ SumReturn(c) \/ Divide(c) \/ Unwind(c)

Next ==
    \E c \in Ctx1 :
        \/ Call(c, Inputs)
        \/ AvgCheck(c)
        \/ SumStep(c)
        \/ SumReturn(c)
        \/ Divide(c)
        \/ Unwind(c)

NextC ==
    \E c \in CtxC :
        \/ Call(c, InputsC)
        \/ AvgCheck(c)
        \/ SumStep(c)
        \/ SumReturn(c)
        \/ Divide(c)
        \/ Unwind(c)

Spec == Init /\ [][Next]_vars
SpecC == InitC /\ [][NextC]_vars
\* A call that has started keeps running: nothing in the code blocks or waits.
FairSpec == Spec /\ \A c \in Ctx1 : WF_vars(Step(c))

----------------------------------------------------------------------------
\* The two functions as pure operators: what a call yields when run alone

RECURSIVE SumFrom(_, _, _)
SumFrom(xs, k, a) ==
    IF k > Len(xs) THEN [outcome |-> "ok", result |-> IntResult(a)]
    ELSE IF ~IsNumber(xs[k]) THEN [outcome |-> "TypeError", result |-> NoResult]
    ELSE SumFrom(xs, k + 1, Add(a, xs[k]))

calculate_total(xs) == SumFrom(xs, 1, SumStart)

calculate_average(xs) ==
    IF Len(xs) = 0 THEN [outcome |-> "ok", result |-> IntResult(Zero)]
    ELSE LET t == calculate_total(xs)
         IN  IF t.outcome # "ok" THEN t
             ELSE IF t.result.h # 0
             THEN [outcome |-> "OverflowError", result |-> NoResult]
             ELSE [outcome |-> "ok", result |-> TrueDiv(t.result.n, Len(xs))]

RunAlone(o, xs) == IF o = "average" THEN calculate_average(xs) ELSE calculate_total(xs)

----------------------------------------------------------------------------
\* Vocabulary of the properties

Done(c) == pc[c] = "done"
AllInts(xs) == \A k \in 1..Len(xs) : IsNumber(xs[k])
\* Every element is an int a float holds exactly (no HUGE part).
AllSmall(xs) == \A k \in 1..Len(xs) : IsNumber(xs[k]) /\ xs[k].h = 0

\* The mathematical sum of the elements, by index set rather than by a
\* left-to-right accumulation.
RECURSIVE SumOver(_, _)
SumOver(xs, K) ==
    IF K = {} THEN Zero
    ELSE LET k == CHOOSE m \in K : \A n \in K : m >= n
             r == SumOver(xs, K \ {k})
         IN  [h |-> xs[k].h + r.h, v |-> xs[k].v + r.v]
MathSum(xs) == SumOver(xs, 1..Len(xs))

MinOf(xs) == CHOOSE m \in {xs[k].v : k \in 1..Len(xs)} :
                 \A k \in 1..Len(xs) : m <= xs[k].v
MaxOf(xs) == CHOOSE m \in {xs[k].v : k \in 1..Len(xs)} :
                 \A k \in 1..Len(xs) : m >= xs[k].v

\* x <= r and x >= r for an element x and a result r.
ElemLeq(x, r) == x.h < r.h \/ (x.h = r.h /\ x.v * r.d <= r.n)
ElemGeq(x, r) == x.h > r.h \/ (x.h = r.h /\ x.v * r.d >= r.n)

Count(xs, e) == Cardinality({k \in 1..Len(xs) : xs[k] = e})
IsPerm(xs, ys) ==
    /\ Len(xs) = Len(ys)
    /\ \A k \in 1..Len(xs) : Count(xs, xs[k]) = Count(ys, xs[k])

----------------------------------------------------------------------------
\* C1: calculate_total on a sequence of ints returns the mathematical sum of
\* its elements, and 0 on the empty sequence.
C1_TotalIsSum ==
    \A c \in DOMAIN pc :
        (Done(c) /\ op[c] = "total" /\ AllInts(items[c]))
            => /\ outcome[c] = "ok"
               /\ result[c] = IntResult(MathSum(items[c]))
               /\ (Len(items[c]) = 0 => result[c] = IntResult(Zero))

C1_Witness ==
    \E c \in DOMAIN pc :
        /\ Done(c) /\ op[c] = "total"
        /\ items[c] = <<IntVal(1), IntVal(2), IntVal(2)>>
        /\ result[c] = [h |-> 0, n |-> 5, d |-> 1]

\* C2 as stated: on every non-empty sequence of ints calculate_average
\* returns the exact quotient total / count.
C2_ExactQuotient ==
    \A c \in DOMAIN pc :
        (Done(c) /\ op[c] = "average" /\ Len(items[c]) > 0 /\ AllInts(items[c]))
            => /\ outcome[c] = "ok"
               /\ result[c].d >= 1
               /\ MathSum(items[c]).h = 0
               /\ result[c].n * Len(items[c]) = MathSum(items[c]).v * result[c].d

\* C2, amended: on a non-empty sequence of ints calculate_average returns
\* the true (not floor) quotient total / count when that quotient is within
\* the float range, and raises OverflowError when it is beyond it.
C2_QuotientInRange ==
    \A c \in DOMAIN pc :
        (Done(c) /\ op[c] = "average" /\ Len(items[c]) > 0 /\ AllInts(items[c]))
            => IF InFloatRange(MathSum(items[c]))
               THEN /\ outcome[c] = "ok"
                    /\ result[c].h = 0
                    /\ result[c].d >= 1
                    /\ result[c].n * Len(items[c]) = MathSum(items[c]).v * result[c].d
               ELSE outcome[c] = "OverflowError"

C2_Witness ==
    \E c \in DOMAIN pc :
        /\ Done(c) /\ op[c] = "average"
        /\ items[c] = <<IntVal(1), IntVal(2)>>
        /\ result[c] = [h |-> 0, n |-> 3, d |-> 2]

\* C3: calculate_average of the empty sequence returns 0 without reaching
\* the division, and no call ends in ZeroDivisionError.
C3_EmptyAverageIsZero ==
    \A c \in DOMAIN pc :
        /\ outcome[c] # "ZeroDivisionError"
        /\ (pc[c] \in {"sum", "div", "unwind"} /\ op[c] = "average")
               => Len(items[c]) > 0
        /\ (Done(c) /\ op[c] = "average" /\ Len(items[c]) = 0)
               => (outcome[c] = "ok" /\ result[c] = IntResult(Zero))

C3_Witness ==
    \E c \in DOMAIN pc :
        /\ Done(c) /\ op[c] = "average" /\ items[c] = <<>>
        /\ outcome[c] = "ok" /\ result[c].n = 0

\* C4 as stated: on every sequence of ints both functions end with a numeric
\* result, never with an error.
C4_NoError ==
    \A c \in DOMAIN pc :
        (Done(c) /\ AllInts(items[c])) => (outcome[c] = "ok" /\ result[c].d >= 1)

\* C4, amended: on every sequence of ints both calls terminate;
\* calculate_total ends with a numeric result, and calculate_average ends
\* with a numeric result unless the quotient total / count is beyond the
\* float range, when it ends with OverflowError.
C4_OnlyOverflow ==
    /\ [](\A c \in DOMAIN pc :
            (Done(c) /\ AllInts(items[c]))
                => /\ outcome[c] \in {"ok", "OverflowError"}
                   /\ outcome[c] = "ok" => result[c].d >= 1
                   /\ outcome[c] = "OverflowError"
                          <=> (op[c] = "average" /\ ~InFloatRange(MathSum(items[c]))))
    /\ \A c \in Ctx1 : (pc[c] # "idle") ~> Done(c)

C4_Witness ==
    \E c \in DOMAIN pc :
        /\ Done(c) /\ op[c] = "average"
        /\ items[c] = <<IntVal(1), Huge(1)>>
        /\ outcome[c] = "OverflowError"

\* C5 as stated: for every one-element sequence [v], calculate_total([v])
\* and calculate_average([v]) equal v.
C5_Singleton ==
    \A c \in DOMAIN pc :
        (Done(c) /\ Len(items[c]) = 1 /\ AllInts(items[c]))
            => /\ outcome[c] = "ok"
               /\ result[c] = [h |-> items[c][1].h, n |-> items[c][1].v, d |-> 1]

\* C5, amended: calculate_total([v]) equals v for every int v, and
\* calculate_average([v]) equals v for every int v that a float holds
\* exactly (|v| <= 2**53).
C5_SingletonRepresentable ==
    \A c \in DOMAIN pc :
        (Done(c) /\ Len(items[c]) = 1 /\ AllInts(items[c])
                 /\ (op[c] = "average" => AllSmall(items[c])))
            => /\ outcome[c] = "ok"
               /\ result[c] = [h |-> items[c][1].h, n |-> items[c][1].v, d |-> 1]

C5_Witness ==
    \E c \in DOMAIN pc :
        /\ Done(c) /\ op[c] = "average"
        /\ items[c] = <<IntVal(2)>>
        /\ result[c] = [h |-> 0, n |-> 2, d |-> 1]

\* C7: from the call on, through its return or its exception, the input
\* sequence keeps its length and its elements in their order.
C7_InputUnchanged ==
    [][\A c \in DOMAIN pc : pc[c] # "idle" => items'[c] = items[c]]_vars

C7_Witness ==
    \E c \in DOMAIN pc :
        /\ Done(c) /\ outcome[c] = "TypeError"
        /\ items[c] = <<IntVal(1), StrVal, IntVal(2)>>

\* C8: on a sequence with a non-numeric element calculate_total ends in the
\* TypeError of the addition, and calculate_average ends in that same
\* TypeError, with no result.
C8_TypeErrorPropagates ==
    \A c \in DOMAIN pc :
        (Done(c) /\ ~AllInts(items[c]))
            => /\ outcome[c] = "TypeError"
               /\ outcome[c] = exc[c]
               /\ result[c] = NoResult

C8_Witness ==
    \E c \in DOMAIN pc :
        /\ Done(c) /\ op[c] = "average"
        /\ items[c] = <<IntVal(0), StrVal>>
        /\ outcome[c] = "TypeError"

\* C10 as stated: on every non-empty sequence of ints calculate_average lies
\* between the smallest and the largest element.
C10_Between ==
    \A c \in DOMAIN pc :
        (Done(c) /\ op[c] = "average" /\ Len(items[c]) > 0 /\ AllInts(items[c]))
            => /\ outcome[c] = "ok"
               /\ \E k \in 1..Len(items[c]) : ElemLeq(items[c][k], result[c])
               /\ \E k \in 1..Len(items[c]) : ElemGeq(items[c][k], result[c])

\* C10, amended: on every non-empty sequence of ints that a float holds
\* exactly (each |x| <= 2**53), min(xs) <= calculate_average(xs) <= max(xs);
\* and the result is 0 for every such sequence whose total is 0, so 0 does
\* not identify the empty input.
C10_BetweenRepresentable ==
    \A c \in DOMAIN pc :
        (Done(c) /\ op[c] = "average" /\ Len(items[c]) > 0 /\ AllSmall(items[c]))
            => /\ outcome[c] = "ok"
               /\ result[c].h = 0 /\ result[c].d >= 1
               /\ MinOf(items[c]) * result[c].d <= result[c].n
               /\ result[c].n <= MaxOf(items[c]) * result[c].d
               /\ MathSum(items[c]).v = 0 => result[c] = IntResult(Zero)

C10_Witness ==
    \E c \in DOMAIN pc :
        /\ Done(c) /\ op[c] = "average"
        /\ items[c] = <<IntVal(0 - 2), IntVal(2)>>
        /\ result[c] = IntResult(Zero)

----------------------------------------------------------------------------
\* Properties of concurrent calls

\* C6: calculate_total returns the same value on a sequence of ints and on
\* every permutation of it.
C6_PermutationInvariant ==
    \A c1, c2 \in DOMAIN pc :
        (/\ Done(c1) /\ Done(c2)
         /\ op[c1] = "total" /\ op[c2] = "total"
         /\ AllInts(items[c1])
         /\ IsPerm(items[c1], items[c2]))
            => (outcome[c1] = "ok" /\ outcome[c2] = "ok" /\ result[c1] = result[c2])

C6_Witness ==
    /\ DOMAIN pc = CtxC
    /\ Done(1) /\ Done(2) /\ op[1] = "total" /\ op[2] = "total"
    /\ items[1] = <<IntVal(1), IntVal(2)>>
    /\ items[2] = <<IntVal(2), IntVal(1)>>
    /\ result[1] = [h |-> 0, n |-> 3, d |-> 1]

\* C9: under every interleaving, a call ends as it ends when run alone on
\* its input, and a step of one call changes nothing of another call.
C9_Isolated ==
    /\ [](\A c \in DOMAIN pc :
            Done(c) => ([outcome |-> outcome[c], result |-> result[c]]
                            = RunAlone(op[c], items[c])))
    /\ [][\E c \in DOMAIN pc : \A e \in DOMAIN pc \ {c} :
            <<op'[e], items'[e], pc'[e], i'[e], acc'[e], exc'[e], outcome'[e], result'[e]>>
                = <<op[e], items[e], pc[e], i[e], acc[e], exc[e], outcome[e], result[e]>>]_vars

C9_Witness ==
    /\ DOMAIN pc = CtxC
    /\ pc[1] = "sum" /\ i[1] = 1 /\ Len(items[1]) = 2 /\ acc[1].v = 2
    /\ pc[2] = "sum" /\ i[2] = 1 /\ Len(items[2]) = 2 /\ acc[2].v = 1

====
